---- MODULE Spec2Model ----
(***************************************************************************)
(* The event synchronisation subsystem of events-timeline: the local event *)
(* log (WatermelonEventStore) and the sync engine (SyncEngineImpl).        *)
(*                                                                         *)
(* The engine is a JavaScript object: every method runs without            *)
(* interruption up to its next `await`, and other handlers (timer          *)
(* callbacks, calls of the UI, continuations of other invocations) run     *)
(* while it waits.  Each invocation of an async method occupies one task   *)
(* slot whose pc names the await it is suspended at; one action is one     *)
(* run of a handler from one await (or the call) to the next await (or     *)
(* the return).                                                            *)
(***************************************************************************)
EXTENDS Integers, Sequences, FiniteSets, TLC

\* ------------------------------------------------------------------ bounds
MaxEvents == 2         \* rows of the log's table
MaxCreated == 1        \* events created while invocations overlap (Spec)
MaxTasks == 2          \* async invocations in flight at the same time
MaxCount == 2          \* cap of the cumulative counters of SyncStats
MaxCountOverlap == 1   \* that cap while invocations overlap (Spec)
MaxTimers == 2         \* interval timers armed at the same time
BatchSize == 1         \* config.batchSize of the modelled engine
MaxRetryAttempts == 2  \* config.maxRetryAttempts of the modelled engine
MaxTicks == 2          \* retryDelay periods that the clock is followed for
MaxRecorded == 3       \* network events recorded or about to be

\* ------------------------------------------------------- program constants
SyncInterval == 30000
RetryDelay == 5000

Ids == 1..MaxEvents
Tasks == 1..MaxTasks
TimerIds == 1..MaxTimers
Null == 0

\* SyncState (enum)
IDLE == "idle"
SYNCING == "syncing"
PAUSED == "paused"
ERROR == "error"
SyncStates == {IDLE, SYNCING, PAUSED, ERROR}

\* ConflictStrategy (enum)
LOCAL_WINS == "local_wins"
REMOTE_WINS == "remote_wins"
LAST_WRITE_WINS == "last_write_wins"
MANUAL == "manual"
ConflictStrategies == {LOCAL_WINS, REMOTE_WINS, LAST_WRITE_WINS, MANUAL}

\* SyncStatus (enum) of a stored event; "absent" is an id not created yet
PENDING == "pending"
SYNCED == "synced"
FAILED == "failed"

VARIABLES
  events,         \* the log: id -> the columns of the row (schema.ts)
  state,          \* SyncEngineImpl.state
  stats,          \* SyncEngineImpl.stats
  isRunning,      \* SyncEngineImpl.isRunning
  isPausedFlag,   \* SyncEngineImpl.isPausedFlag
  syncIntervalId, \* SyncEngineImpl.syncIntervalId (Null or a timer id)
  timers,         \* the interval timers armed in the JS runtime
  tasks,          \* the async invocations in flight
  config,         \* SyncEngineImpl.config: batchSize, maxRetryAttempts, syncInterval,
                  \* retryDelay, exponentialBackoff, conflictStrategy
  toCreate,       \* createEvent calls the application still makes
  countCap,       \* the value up to which the counters of stats are followed
  remote,         \* the rows of the remote "events" table (SupabaseEventAPI)
  clock,          \* Date.now(), in ms since the engine was constructed
  failedAt,       \* id -> the clock reading when the event was last marked failed
  isTracking,     \* EventTrackerService.isTracking
  lastNetworkState, \* EventTrackerService.lastNetworkState
  handlers,       \* the handleNetworkChange invocations awaiting their createEvent
  fetchState,     \* the NetInfo.fetch() promise of startTracking
  connectivity,   \* isConnected of the most recent notification of NetInfo
  recorded,       \* the types of the network events in the log, in creation order
  returned        \* what the handler of the last step returned to its caller:
                  \* which call, by which return statement, with which
                  \* SyncResult; NoReturn when that step returned nothing

\* the fields of EventTrackerService and what its callbacks are given
trackerVars == <<isTracking, lastNetworkState, handlers, fetchState, connectivity, recorded>>

\* the fields of SyncEngineImpl, the log and the remote table
engineVars == <<events, state, stats, isRunning, isPausedFlag, syncIntervalId,
                timers, tasks, config, toCreate, countCap, remote, clock, failedAt, returned>>

vars == <<engineVars, trackerVars>>

\* ------------------------------------------------------------ plain values
\* the errors that reach the engine: the error string of an entry of
\* apiResult.errors, the exception of a rejected pushEvents call, the
\* exception of a rejected call of the event store, the exception of
\* collection.find(id) for an id that is not in the log
RemoteError == "rejected by the remote"
TransportError == "pushEvents failed"
StoreError == "store failed"
NotFoundError == "record not found"
NoError == "none"

\* EventType (enum): the kind of the events that are recorded
ITEM_CREATED == "ITEM_CREATED"

\* a row of an id that no event has yet
AbsentEvent ==
  [status |-> "absent", retryCount |-> 0, syncedAt |-> FALSE, error |-> NoError,
   type |-> "none", payload |-> "none", timestamp |-> 0, createdAt |-> 0, deviceId |-> "none"]

\* a row after markAsDeleted: no query and no find() answers it any more
DeletedEvent == [AbsentEvent EXCEPT !.status = "deleted"]

\* the event is in the log
Exists(ev, id) == ev[id].status \in {PENDING, SYNCED, FAILED}

\* Date.now(): a clock that advances with every event created
Now(ev) == Cardinality({id \in DOMAIN ev : ev[id].status # "absent"}) + 1

\* createEvent, lines 24-32: the record of input; a missing (or zero)
\* input.timestamp is replaced by the time of the call
NewEvent(input, now) ==
  [status |-> PENDING, retryCount |-> 0, syncedAt |-> FALSE, error |-> NoError,
   type |-> input.type, payload |-> input.payload,
   timestamp |-> IF input.timestamp # 0 THEN input.timestamp ELSE now,
   createdAt |-> now, deviceId |-> input.deviceId]

\* the input of useCreateEvent: a type and its payload, no timestamp, no deviceId
QuickInput == [type |-> ITEM_CREATED, payload |-> "item", timestamp |-> 0, deviceId |-> "none"]

\* mapToEvent, lines 344-357: the Event of a row.  Its status, syncedAt and
\* error are left out: the engine reads none of them from an Event it holds
mapToEvent(id, row) ==
  [id |-> id, type |-> row.type, payload |-> row.payload, timestamp |-> row.timestamp,
   createdAt |-> row.createdAt, retryCount |-> row.retryCount, deviceId |-> row.deviceId]

\* SyncStats: the cumulative counters.  pendingCount, failedCount and the
\* clock readings lastSyncAt and lastSyncDuration are written by updateStats
\* and notifySyncComplete only and are not modelled.
InitialStats == [totalSynced |-> 0, totalFailed |-> 0, consecutiveFailures |-> 0]

\* The counters are followed up to countCap.  A specification whose countCap
\* is Null does not follow them (no branch of the engine reads stats): they
\* keep their initial value.
WithinCap(n) == countCap = Null \/ n <= countCap

Counted(n, k) == IF countCap = Null THEN n ELSE n + k

\* an empty result that reports a failure
createEmptyResultFailed == [success |-> FALSE, syncedEvents |-> {}, failedEvents |-> {}, conflicts |-> {}]

\* createEmptyResult, lines 890-898 (duration is a clock reading, not modelled)
createEmptyResult == [success |-> TRUE, syncedEvents |-> {}, failedEvents |-> {}, conflicts |-> {}]

\* thrown: the exception raised in the step; handled: the error the step
\* passed to handleError, so to every onSyncError subscriber; conflicts: the
\* apiResult.conflicts that the step turned into entries of its result
NoReturn ==
  [call |-> "none", path |-> "none", result |-> createEmptyResult,
   thrown |-> NoError, handled |-> NoError, conflicts |-> {}]

\* a handleError that calls no subscriber
handleErrorToNobody(error) == NoError

\* handleError, lines 880-883: the error goes to each of syncErrorCallbacks
handleError(error) == error

\* a return of a call by one of its return statements, nothing thrown
Return(call, path, result) == [NoReturn EXCEPT !.call = call, !.path = path, !.result = result]

\* the promise of a call rejects with the exception the step raised
Reject(call, error) == [NoReturn EXCEPT !.call = call, !.path = "rejected", !.thrown = error]

\* a call that has reached an await and has not returned yet
Awaiting(call) == [NoReturn EXCEPT !.call = call, !.path = "awaiting"]

\* isHealthy: what healthCheck() answered to a start() (line 583)
IdleTask ==
  [pc |-> "idle", origin |-> "none", batch |-> <<>>, api |-> <<>>, conflicts |-> {}, idx |-> 0,
   result |-> createEmptyResult, isHealthy |-> TRUE]

\* a syncNow() execution between entering Syncing and its return, whatever
\* called it (the UI, the timer callback, start() or resume(), which return
\* when it returns); origin is the method whose syncEvents call it is
CyclePcs == {"getPending", "push", "markSynced", "markFailed", "updateStats"}

InCycle(tk) == tk.origin = "syncNow" /\ tk.pc \in CyclePcs

\* the slot a new invocation takes: the lowest free one
IsFree(t) == tasks[t].pc = "idle" /\ \A u \in 1..(t - 1) : tasks[u].pc # "idle"

BatchIds(batch) == {batch[i].id : i \in DOMAIN batch}

\* ------------------------------------------------------------ the event log
RECURSIVE TakeWhere(_, _, _, _)
\* the first `limit` ids from `from` on whose status is st, in the order of the table
TakeWhere(ev, st, from, limit) ==
  IF from > MaxEvents \/ limit = 0 THEN <<>>
  ELSE IF ev[from].status = st
       THEN <<mapToEvent(from, ev[from])>> \o TakeWhere(ev, st, from + 1, limit - 1)
       ELSE TakeWhere(ev, st, from + 1, limit)

\* a getPendingEvents that ignores its limit
getPendingEventsUnlimited(ev, limit) == TakeWhere(ev, PENDING, 1, MaxEvents)

getPendingEvents(ev, limit) == TakeWhere(ev, PENDING, 1, limit)

\* a getFailedEvents that ignores its limit
getFailedEventsUnlimited(ev, limit) == TakeWhere(ev, FAILED, 1, MaxEvents)

getFailedEvents(ev, limit) == TakeWhere(ev, FAILED, 1, limit)

\* the ids that collection.find does not find ("WatermelonDB throws if not
\* found", WatermelonEventStore.ts line 69)
Missing(ev, ids) == {id \in ids : ~Exists(ev, id)}

\* a markEventsSynced that leaves syncedAt unset
markEventsSyncedNoTimestamp(ev, ids) ==
  [id \in Ids |-> IF id \in ids THEN [ev[id] EXCEPT !.status = SYNCED] ELSE ev[id]]

\* a markEventsSynced that removes the rows it has synced
markEventsSyncedAndPurged(ev, ids) ==
  [id \in Ids |-> IF id \in ids THEN DeletedEvent ELSE ev[id]]

\* markEventsSynced, lines 205-218, of ids that are in the table
markEventsSynced(ev, ids) ==
  [id \in Ids |-> IF id \in ids THEN [ev[id] EXCEPT !.status = SYNCED, !.syncedAt = TRUE] ELSE ev[id]]

\* a markEventsFailed copied from markEventsSynced with its status left as it was
markEventsFailedAsSynced(ev, id, error, retryCount) ==
  [ev EXCEPT ![id] = [@ EXCEPT !.status = SYNCED, !.error = error, !.retryCount = retryCount]]

markEventsFailed(ev, id, error, retryCount) ==
  [ev EXCEPT ![id] = [@ EXCEPT !.status = FAILED, !.error = error, !.retryCount = retryCount]]

\* an updateEventStatusBatch that stamps the rows it updates
updateEventStatusBatchRestamped(ev, ids, status) ==
  [id \in Ids |-> IF id \in ids THEN [ev[id] EXCEPT !.status = status, !.timestamp = 0] ELSE ev[id]]

\* updateEventStatusBatch, lines 172-203, and updateEventStatus, lines
\* 145-170, called with a status only
updateEventStatusBatch(ev, ids, status) ==
  [id \in Ids |-> IF id \in ids THEN [ev[id] EXCEPT !.status = status] ELSE ev[id]]

\* createEvent(input): a new record, status pending; ids are fresh, so the next one
createEvent(input) ==
  \E id \in Ids :
    /\ events[id].status = "absent"
    /\ \A j \in 1..(id - 1) : events[j].status # "absent"
    /\ toCreate > 0
    /\ toCreate' = toCreate - 1
    /\ events' = [events EXCEPT ![id] = NewEvent(input, Now(events))]
    /\ returned' = NoReturn
    /\ UNCHANGED <<state, stats, isRunning, isPausedFlag, syncIntervalId, timers, tasks, config, countCap, remote>>
    /\ UNCHANGED <<clock, failedAt, trackerVars>>

\* the application records an event (useCreateEvent)
CreateEvent == createEvent(QuickInput)

\* --------------------------------------------------------------- the engine
\* the engine of Spec: the values of DEFAULT_CONFIG, scaled to the bounds
ScaledConfig ==
  [batchSize |-> BatchSize, maxRetryAttempts |-> MaxRetryAttempts, syncInterval |-> SyncInterval,
   retryDelay |-> RetryDelay, exponentialBackoff |-> TRUE,
   conflictStrategy |-> LAST_WRITE_WINS]

\* the state after construction, common to every specification
Constructed ==
  /\ events = [id \in Ids |-> AbsentEvent]
  /\ state = IDLE
  /\ stats = InitialStats
  /\ isRunning = FALSE
  /\ isPausedFlag = FALSE
  /\ syncIntervalId = Null
  /\ timers = {}
  /\ tasks = [t \in Tasks |-> IdleTask]
  /\ remote = <<>>
  /\ clock = 0
  /\ failedAt = [id \in Ids |-> 0]
  /\ isTracking = FALSE
  /\ lastNetworkState = "null"
  /\ handlers = <<>>
  /\ fetchState = "none"
  /\ connectivity = "null"
  /\ recorded = <<>>
  /\ returned = NoReturn

Init ==
  /\ Constructed
  /\ config = ScaledConfig
  /\ toCreate = MaxCreated
  /\ countCap = MaxCountOverlap

\* a syncNow without its single-flight guard
SyncInProgressNever(s) == FALSE

\* syncNow, line 617: a cycle is in progress
SyncInProgress(s) == s = SYNCING

\* a syncNow without its pause guard
SyncIsPausedNever(p) == FALSE

\* syncNow, line 622: the engine is paused
SyncIsPaused(p) == p

\* a cycle that ends Idle whatever failed
StateAfterCycleAlwaysIdle(result) == IDLE

\* setState of the end of a cycle, line 649
StateAfterCycle(result) == IF result.failedEvents # {} THEN ERROR ELSE IDLE

\* syncNow() from its call to its first await or early return, entered by
\* invocation t with the engine state s and the pause flag p of that moment
SyncNowEnter(t, caller, s, p) ==
  IF SyncInProgress(s) \/ SyncIsPaused(p)
  THEN /\ state' = s
       /\ tasks' = [tasks EXCEPT ![t] = IdleTask]
       /\ returned' = Return(caller, IF SyncInProgress(s) THEN "inProgress" ELSE "paused",
                           createEmptyResult)
  ELSE /\ state' = SYNCING
       /\ tasks' = [tasks EXCEPT ![t] = [IdleTask EXCEPT !.pc = "getPending", !.origin = "syncNow",
                                                          !.isHealthy = tasks[t].isHealthy]]
       /\ returned' = Awaiting(caller)

\* a manual syncNow() call
SyncNow(t) ==
  /\ IsFree(t)
  /\ SyncNowEnter(t, "syncNow", state, isPausedFlag)
  /\ UNCHANGED <<events, stats, isRunning, isPausedFlag, syncIntervalId, timers>>
  /\ UNCHANGED <<config, toCreate, countCap, remote, clock, failedAt, trackerVars>>

\* the setInterval callback of start(), lines 593-597
TimerTick(t) ==
  /\ IsFree(t)
  /\ timers # {}
  /\ IF ~isPausedFlag
     THEN SyncNowEnter(t, "timer", state, isPausedFlag)
     ELSE /\ returned' = Return("timer", "suppressed", createEmptyResult)
          /\ UNCHANGED <<state, tasks>>
  /\ UNCHANGED <<events, stats, isRunning, isPausedFlag, syncIntervalId, timers>>
  /\ UNCHANGED <<config, toCreate, countCap, remote, clock, failedAt, trackerVars>>

pause ==
  /\ isPausedFlag' = TRUE
  /\ state' = PAUSED
  /\ returned' = NoReturn
  /\ UNCHANGED <<events, stats, isRunning, syncIntervalId, timers, tasks>>
  /\ UNCHANGED <<config, toCreate, countCap, remote, clock, failedAt, trackerVars>>

resume(t) ==
  /\ IsFree(t)
  /\ isPausedFlag' = FALSE
  /\ SyncNowEnter(t, "resume", IDLE, FALSE)
  /\ UNCHANGED <<events, stats, isRunning, syncIntervalId, timers>>
  /\ UNCHANGED <<config, toCreate, countCap, remote, clock, failedAt, trackerVars>>

stop ==
  /\ isRunning' = FALSE
  /\ timers' = timers \ {syncIntervalId}
  /\ syncIntervalId' = Null
  /\ state' = IDLE
  /\ returned' = NoReturn
  /\ UNCHANGED <<events, stats, isPausedFlag, tasks>>
  /\ UNCHANGED <<config, toCreate, countCap, remote, clock, failedAt, trackerVars>>

\* start() up to its first await (the health check)
start(t) ==
  /\ IsFree(t)
  /\ IF isRunning
     THEN /\ returned' = Return("start", "alreadyRunning", createEmptyResult)
          /\ UNCHANGED <<isRunning, isPausedFlag, tasks>>
     ELSE /\ isRunning' = TRUE
          /\ isPausedFlag' = FALSE
          /\ tasks' = [tasks EXCEPT ![t] = [IdleTask EXCEPT !.pc = "healthCheck", !.origin = "start"]]
          /\ returned' = NoReturn
  /\ UNCHANGED <<events, state, stats, syncIntervalId, timers>>
  /\ UNCHANGED <<config, toCreate, countCap, remote, clock, failedAt, trackerVars>>

\* a start() that gives up when the remote is not reachable
StartGoesOnIfHealthy(isHealthy) == isHealthy

\* start, lines 584-588: a failed health check is logged and start() goes on
StartGoesOn(isHealthy) == TRUE

\* the health check answers (SupabaseEventAPI.healthCheck catches what it
\* raises and answers false); updateStats() is called
HealthCheckReturns(t) ==
  /\ tasks[t].pc = "healthCheck"
  /\ \E isHealthy \in BOOLEAN :
       IF StartGoesOn(isHealthy)
       THEN /\ tasks' = [tasks EXCEPT ![t] = [@ EXCEPT !.pc = "startStats", !.isHealthy = isHealthy]]
            /\ returned' = NoReturn
       ELSE /\ tasks' = [tasks EXCEPT ![t] = IdleTask]
            /\ returned' = Return("start", "unhealthy", createEmptyResult)
  /\ UNCHANGED <<events, state, stats, isRunning, isPausedFlag, syncIntervalId, timers>>
  /\ UNCHANGED <<config, toCreate, countCap, remote, clock, failedAt, trackerVars>>

\* updateStats, lines 869-878: reads the pending and the failed events; the
\* cumulative counters stay
updateStats(st, ev) == st

\* a timer id that no armed timer has
FreshTimer == CHOOSE id \in TimerIds : id \notin timers /\ \A j \in 1..(id - 1) : j \in timers

\* a start() that arms its timer whatever the interval
TimerEnabledAlways(syncInterval) == TRUE

\* start, line 592: the periodic timer is wanted
TimerEnabled(syncInterval) == syncInterval > 0

\* start() from the end of updateStats(): arms the timer and calls syncNow();
\* a failing read of the store makes start() reject
StartStatsReturns(t) ==
  /\ tasks[t].pc = "startStats"
  /\ \E ok \in BOOLEAN :
       IF ok
       THEN /\ stats' = updateStats(stats, events)
            /\ IF TimerEnabled(config.syncInterval)
               THEN /\ timers # TimerIds
                    /\ syncIntervalId' = FreshTimer
                    /\ timers' = timers \cup {FreshTimer}
               ELSE UNCHANGED <<syncIntervalId, timers>>
            /\ SyncNowEnter(t, "start", state, isPausedFlag)
       ELSE /\ tasks' = [tasks EXCEPT ![t] = IdleTask]
            /\ returned' = Reject("start", StoreError)
            /\ UNCHANGED <<stats, syncIntervalId, timers, state>>
  /\ UNCHANGED <<events, isRunning, isPausedFlag>>
  /\ UNCHANGED <<config, toCreate, countCap, remote, clock, failedAt, trackerVars>>

\* ------------------------------------------------------------ the remote
\* what pushEvents reports of one event of the batch: its id in syncedIds, in
\* errors, in conflicts, or in none of them
Verdicts == {"synced", "error", "conflict", "omitted"}

Responses(batch) == [DOMAIN batch -> Verdicts]

IdsWith(batch, api, v) == {batch[i].id : i \in {j \in DOMAIN batch : api[j] = v}}

\* the remoteEvent of an entry of apiResult.conflicts: the fields by which
\* versions of an event are compared
DeviceIds == <<"device-a", "device-b">>

\* the occurrence times that events are given
Timestamps == 1..MaxEvents

RemoteEvents == [timestamp : Timestamps, deviceId : {DeviceIds[i] : i \in DOMAIN DeviceIds}]

\* the remote's copy of a pushed event when nothing else wrote to it
SameVersion(event) == [timestamp |-> event.timestamp, deviceId |-> event.deviceId]

\* apiResult.conflicts of the response api, the remote holding versions[i] of
\* the i-th event of the batch
ApiConflicts(batch, api, versions) ==
  {[eventId |-> batch[i].id, remoteEvent |-> versions[i]] :
     i \in {j \in DOMAIN batch : api[j] = "conflict"}}

\* ------------------------------------------------------------- syncEvents
\* syncEvents, line 685: whether the failed event stays retryable
Retryable(retryCount) == retryCount + 1 < config.maxRetryAttempts

RECURSIVE ErrorLoop(_, _, _, _)
\* the loop over apiResult.errors, lines 681-699, from index i up to its next
\* await (markEventsFailed of a retryable event) or its end
ErrorLoop(batch, api, i, failed) ==
  IF i > Len(batch) THEN [idx |-> i, failed |-> failed]
  ELSE IF api[i] # "error" THEN ErrorLoop(batch, api, i + 1, failed)
  ELSE IF Retryable(batch[i].retryCount) THEN [idx |-> i, failed |-> failed]
  ELSE ErrorLoop(batch, api, i + 1, failed \cup {[id |-> batch[i].id, error |-> RemoteError, retryable |-> FALSE]})

\* syncEvents hands its result to its caller: syncNow goes on to
\* updateStats() (lines 642-648), retryFailedEvents and retryEvent return it;
\* error is the exception its catch block caught, if any
SyncEventsReturn(t, res, st, error, conflicts) ==
  IF tasks[t].origin = "syncNow"
  THEN /\ ~res.success => WithinCap(st.consecutiveFailures + 1)
       /\ stats' = [st EXCEPT !.consecutiveFailures = IF res.success THEN 0 ELSE Counted(@, 1)]
       /\ tasks' = [tasks EXCEPT ![t] = [@ EXCEPT !.pc = "updateStats", !.result = res,
                                                   !.api = <<>>, !.conflicts = {}, !.idx = 0]]
       /\ returned' = [NoReturn EXCEPT !.thrown = error, !.conflicts = conflicts]
       /\ UNCHANGED <<state>>
  ELSE /\ stats' = st
       /\ tasks' = [tasks EXCEPT ![t] = IdleTask]
       /\ returned' = [Return(tasks[t].origin, "done", res) EXCEPT !.thrown = error,
                                                                   !.conflicts = conflicts]
       /\ UNCHANGED state

\* syncEvents, line 708: the resolution recorded for a reported conflict
Resolution(localEvent, remoteEvent) == "local"

\* the loop over apiResult.conflicts, lines 702-711
ConflictEntries(batch, conflicts) ==
  {[id |-> batch[i].id, conflictType |-> "version",
    resolution |-> Resolution(batch[i], c.remoteEvent)] :
      <<i, c>> \in {<<j, d>> \in (DOMAIN batch) \X conflicts : batch[j].id = d.eventId}}

\* the end of the try block, lines 701-720
SyncEventsFinish(t, conflicts, synced, failed, st) ==
  /\ WithinCap(st.totalFailed + Cardinality(failed))
  /\ SyncEventsReturn(t,
        [success |-> failed = {}, syncedEvents |-> synced, failedEvents |-> failed,
         conflicts |-> ConflictEntries(tasks[t].batch, conflicts)],
        [st EXCEPT !.totalFailed = Counted(@, Cardinality(failed))],
        NoError, conflicts)

\* a catch block that reports the failed batch as not retryable
CatchFailedEventsNotRetryable(batch, error) ==
  {[id |-> id, error |-> error, retryable |-> FALSE] : id \in BatchIds(batch)}

\* result.failedEvents of the catch block, lines 724-728
CatchFailedEvents(batch, error) ==
  {[id |-> id, error |-> error, retryable |-> TRUE] : id \in BatchIds(batch)}

\* the catch block, lines 721-730, entered with the exception error
SyncEventsCatch(t, synced, st, error) ==
  SyncEventsReturn(t,
     [success |-> FALSE, syncedEvents |-> synced,
      failedEvents |-> CatchFailedEvents(tasks[t].batch, error),
      conflicts |-> {}],
     st, error, {})

\* the error loop from index `from` on, then the rest of syncEvents
HandleFailures(t, api, conflicts, from, synced, failed, st) ==
  LET nxt == ErrorLoop(tasks[t].batch, api, from, failed)
  IN IF nxt.idx <= Len(tasks[t].batch)
     THEN /\ tasks' = [tasks EXCEPT ![t] =
                 [@ EXCEPT !.pc = "markFailed", !.api = api, !.conflicts = conflicts, !.idx = nxt.idx,
                           !.result = [createEmptyResult EXCEPT !.syncedEvents = synced,
                                                                !.failedEvents = nxt.failed]]]
          /\ stats' = st
          /\ returned' = NoReturn
          /\ UNCHANGED <<state>>
     ELSE SyncEventsFinish(t, conflicts, synced, nxt.failed, st)

\* ------------------------------------------------------------- the cycle
\* syncNow, lines 630-640: the read of the pending batch answers
GetPendingReturns(t) ==
  /\ tasks[t].pc = "getPending"
  /\ \E ok \in BOOLEAN :
       LET pendingEvents == getPendingEvents(events, config.batchSize)
       IN IF ~ok
          THEN /\ state' = ERROR
               /\ tasks' = [tasks EXCEPT ![t] = IdleTask]
               /\ returned' = [Return(tasks[t].origin, "error", createEmptyResult) EXCEPT !.thrown = StoreError,
                                                  !.handled = handleError(StoreError)]
          ELSE IF pendingEvents = <<>>
          THEN /\ state' = IDLE
               /\ tasks' = [tasks EXCEPT ![t] = IdleTask]
               /\ returned' = Return(tasks[t].origin, "noPending", createEmptyResult)
          ELSE /\ tasks' = [tasks EXCEPT ![t] = [@ EXCEPT !.pc = "push", !.batch = pendingEvents,
                                                             !.isHealthy = TRUE]]
               /\ returned' = NoReturn
               /\ UNCHANGED <<state>>
  /\ UNCHANGED <<events, stats, isRunning, isPausedFlag, syncIntervalId, timers>>
  /\ UNCHANGED <<config, toCreate, countCap, remote, clock, failedAt, trackerVars>>

\* syncEvents, lines 671-674, with the answer of pushEvents
PushAnswers(t, api, conflicts) ==
  IF IdsWith(tasks[t].batch, api, "synced") # {}
  THEN /\ tasks' = [tasks EXCEPT ![t] = [@ EXCEPT !.pc = "markSynced", !.api = api,
                                                   !.conflicts = conflicts]]
       /\ returned' = NoReturn
       /\ UNCHANGED <<state, stats>>
  ELSE HandleFailures(t, api, conflicts, 1, {}, {}, stats)

\* pushEvents of any IRemoteEventAPI answers or throws; a conflict it reports
\* carries the version of the event that was pushed
PushReturns(t) ==
  /\ tasks[t].pc = "push"
  /\ \/ SyncEventsCatch(t, {}, stats, TransportError)
     \/ \E api \in Responses(tasks[t].batch) :
          PushAnswers(t, api,
             ApiConflicts(tasks[t].batch, api,
                [i \in DOMAIN tasks[t].batch |-> SameVersion(tasks[t].batch[i])]))
  /\ UNCHANGED <<events, isRunning, isPausedFlag, syncIntervalId, timers>>
  /\ UNCHANGED <<config, toCreate, countCap, remote, clock, failedAt, trackerVars>>

\* syncEvents, lines 675-678: markEventsSynced is done
MarkSyncedReturns(t) ==
  /\ tasks[t].pc = "markSynced"
  /\ LET syncedIds == IdsWith(tasks[t].batch, tasks[t].api, "synced")
     IN \E ok \in BOOLEAN :
          IF ~ok
          THEN /\ UNCHANGED events
               /\ SyncEventsCatch(t, {}, stats, StoreError)
          ELSE IF Missing(events, syncedIds) # {}
          THEN \* one find() throws and the write rejects, while the updates
               \* of the other ids of Promise.all are made or not
               /\ \E done \in SUBSET (syncedIds \ Missing(events, syncedIds)) :
                     events' = markEventsSynced(events, done)
               /\ SyncEventsCatch(t, {}, stats, NotFoundError)
          ELSE /\ WithinCap(stats.totalSynced + Cardinality(syncedIds))
               /\ events' = markEventsSynced(events, syncedIds)
               /\ HandleFailures(t, tasks[t].api, tasks[t].conflicts, 1, syncedIds, {},
                     [stats EXCEPT !.totalSynced = Counted(@, Cardinality(syncedIds))])
  /\ UNCHANGED <<isRunning, isPausedFlag, syncIntervalId, timers>>
  /\ UNCHANGED <<config, toCreate, countCap, remote, clock, failedAt, trackerVars>>

\* syncEvents, lines 688-697: markEventsFailed of one retryable event is done
MarkFailedReturns(t) ==
  /\ tasks[t].pc = "markFailed"
  /\ LET event == tasks[t].batch[tasks[t].idx]
     IN \E ok \in BOOLEAN :
          IF ok /\ Exists(events, event.id)
          THEN /\ events' = markEventsFailed(events, event.id, RemoteError, event.retryCount + 1)
               /\ failedAt' = [failedAt EXCEPT ![event.id] = clock]
               /\ HandleFailures(t, tasks[t].api, tasks[t].conflicts, tasks[t].idx + 1, tasks[t].result.syncedEvents,
                     tasks[t].result.failedEvents \cup {[id |-> event.id, error |-> RemoteError, retryable |-> TRUE]},
                     stats)
          ELSE /\ UNCHANGED <<events, failedAt>>
               /\ SyncEventsCatch(t, tasks[t].result.syncedEvents, stats,
                                  IF ok THEN NotFoundError ELSE StoreError)
  /\ UNCHANGED <<isRunning, isPausedFlag, syncIntervalId, timers>>
  /\ UNCHANGED <<config, toCreate, countCap, remote, clock, trackerVars>>

\* syncNow, lines 648-657: updateStats() is done, the cycle ends
UpdateStatsReturns(t) ==
  /\ tasks[t].pc = "updateStats"
  /\ \E ok \in BOOLEAN :
       IF ok
       THEN /\ stats' = updateStats(stats, events)
            /\ state' = StateAfterCycle(tasks[t].result)
            /\ returned' = Return(tasks[t].origin, "done", tasks[t].result)
       ELSE /\ state' = ERROR
            /\ returned' = [Return(tasks[t].origin, "error", createEmptyResult) EXCEPT !.thrown = StoreError,
                                                  !.handled = handleError(StoreError)]
            /\ UNCHANGED stats
  /\ tasks' = [tasks EXCEPT ![t] = IdleTask]
  /\ UNCHANGED <<events, isRunning, isPausedFlag, syncIntervalId, timers>>
  /\ UNCHANGED <<config, toCreate, countCap, remote, clock, failedAt, trackerVars>>

\* ------------------------------------------------------------ retry logic
retryFailedEvents(t) ==
  /\ IsFree(t)
  /\ tasks' = [tasks EXCEPT ![t] = [IdleTask EXCEPT !.pc = "getFailed", !.origin = "retryFailedEvents"]]
  /\ returned' = NoReturn
  /\ UNCHANGED <<events, state, stats, isRunning, isPausedFlag, syncIntervalId, timers>>
  /\ UNCHANGED <<config, toCreate, countCap, remote, clock, failedAt, trackerVars>>

\* retryFailedEvents, lines 799-811: the read of the failed events answers
GetFailedReturns(t) ==
  /\ tasks[t].pc = "getFailed"
  /\ \E ok \in BOOLEAN :
       LET failedEvents == getFailedEvents(events, config.batchSize)
       IN IF ~ok
          THEN /\ tasks' = [tasks EXCEPT ![t] = IdleTask]
               /\ returned' = Reject(tasks[t].origin, StoreError)
          ELSE IF failedEvents = <<>>
          THEN /\ tasks' = [tasks EXCEPT ![t] = IdleTask]
               /\ returned' = Return(tasks[t].origin, "noFailed", createEmptyResult)
          ELSE /\ tasks' = [tasks EXCEPT ![t] = [@ EXCEPT !.pc = "reset", !.batch = failedEvents]]
               /\ returned' = NoReturn
  /\ UNCHANGED <<events, state, stats, isRunning, isPausedFlag, syncIntervalId, timers>>
  /\ UNCHANGED <<config, toCreate, countCap, remote, clock, failedAt, trackerVars>>

\* retryEvent(eventId) up to its await of getEventById; idx holds eventId
retryEvent(t, eventId) ==
  /\ IsFree(t)
  /\ tasks' = [tasks EXCEPT ![t] = [IdleTask EXCEPT !.pc = "getEventById", !.origin = "retryEvent",
                                                     !.idx = eventId]]
  /\ returned' = NoReturn
  /\ UNCHANGED <<events, state, stats, isRunning, isPausedFlag, syncIntervalId, timers>>
  /\ UNCHANGED <<config, toCreate, countCap, remote, clock, failedAt, trackerVars>>

\* retryEvent, lines 817-823: getEventById answers the event, or null when the
\* id is not in the log or the read fails
GetEventByIdReturns(t) ==
  /\ tasks[t].pc = "getEventById"
  /\ \E ok \in BOOLEAN :
       LET eventId == tasks[t].idx
       IN IF ~ok \/ ~Exists(events, eventId)
          THEN /\ tasks' = [tasks EXCEPT ![t] = IdleTask]
               /\ returned' = Return(tasks[t].origin, "notFound", createEmptyResult)
          ELSE /\ tasks' = [tasks EXCEPT ![t] =
                      [@ EXCEPT !.pc = "reset", !.idx = 0,
                                !.batch = <<mapToEvent(eventId, events[eventId])>>]]
               /\ returned' = NoReturn
  /\ UNCHANGED <<events, state, stats, isRunning, isPausedFlag, syncIntervalId, timers>>
  /\ UNCHANGED <<config, toCreate, countCap, remote, clock, failedAt, trackerVars>>

\* lines 806-813 and 823-824: the reset to pending is written, syncEvents is
\* called with the events as they were read
ResetReturns(t) ==
  /\ tasks[t].pc = "reset"
  /\ \E ok \in BOOLEAN :
       LET ids == BatchIds(tasks[t].batch)
       IN IF ~ok
          THEN /\ tasks' = [tasks EXCEPT ![t] = IdleTask]
               /\ returned' = Reject(tasks[t].origin, StoreError)
               /\ UNCHANGED events
          ELSE IF Missing(events, ids) # {}
          THEN \* an event deleted since it was read: find() throws
               /\ \E done \in SUBSET (ids \ Missing(events, ids)) :
                     events' = updateEventStatusBatch(events, done, PENDING)
               /\ tasks' = [tasks EXCEPT ![t] = IdleTask]
               /\ returned' = Reject(tasks[t].origin, NotFoundError)
          ELSE /\ events' = updateEventStatusBatch(events, ids, PENDING)
               /\ tasks' = [tasks EXCEPT ![t] = [@ EXCEPT !.pc = "push"]]
               /\ returned' = NoReturn
  /\ UNCHANGED <<state, stats, isRunning, isPausedFlag, syncIntervalId, timers>>
  /\ UNCHANGED <<config, toCreate, countCap, remote, clock, failedAt, trackerVars>>

\* ------------------------------------------------- conflict management
\* setConflictStrategy, lines 772-774
setConflictStrategy(strategy) ==
  /\ config' = [config EXCEPT !.conflictStrategy = strategy]
  /\ returned' = NoReturn
  /\ UNCHANGED <<events, state, stats, isRunning, isPausedFlag, syncIntervalId, timers, tasks>>
  /\ UNCHANGED <<toCreate, countCap, remote, clock, failedAt, trackerVars>>

\* getPendingConflicts, lines 780-783: the ids of the events it answers
getPendingConflicts == {}

\* resolveConflict, lines 785-792: a placeholder that writes a log line
resolveConflict(eventId, resolution) ==
  /\ returned' = Return("resolveConflict", "done", createEmptyResult)
  /\ UNCHANGED <<events, state, stats, isRunning, isPausedFlag, syncIntervalId, timers, tasks>>
  /\ UNCHANGED <<config, toCreate, countCap, remote, clock, failedAt, trackerVars>>

\* pushEvents of a remote that holds any version of an event it reports a
\* conflict for
PushReturnsVersions(t) ==
  /\ tasks[t].pc = "push"
  /\ \/ SyncEventsCatch(t, {}, stats, TransportError)
     \/ \E api \in Responses(tasks[t].batch) :
          \E versions \in [DOMAIN tasks[t].batch -> RemoteEvents] :
             PushAnswers(t, api, ApiConflicts(tasks[t].batch, api, versions))
  /\ UNCHANGED <<events, isRunning, isPausedFlag, syncIntervalId, timers>>
  /\ UNCHANGED <<config, toCreate, countCap, remote, clock, failedAt, trackerVars>>

\* ------------------------------------------------------ SupabaseEventAPI
\* pushEvents, lines 39-50: the row of an event (its status, synced_at, error
\* and retry_count columns are not followed)
EventInsert(event) ==
  [id |-> event.id, type |-> event.type, payload |-> event.payload,
   timestamp |-> event.timestamp, created_at |-> event.createdAt,
   device_id |-> event.deviceId]

\* an upsert that inserts whatever the table holds
upsertAsInsert(table, row) == Append(table, row)

\* upsert with onConflict: "id", ignoreDuplicates: false (lines 54-59): the
\* row replaces the one of the same id, or is added
upsert(table, row) ==
  IF \E i \in DOMAIN table : table[i].id = row.id
  THEN [i \in DOMAIN table |-> IF table[i].id = row.id THEN row ELSE table[i]]
  ELSE Append(table, row)

RECURSIVE UpsertRows(_, _, _)
\* the upsert of the rows of the events from index i on
UpsertRows(table, batch, i) ==
  IF i > Len(batch) THEN table
  ELSE UpsertRows(upsert(table, EventInsert(batch[i])), batch, i + 1)

\* pushEvents of SupabaseEventAPI answers, lines 26-82: every event in errors
\* (Supabase not configured, or the upsert answered an error, which it also
\* does when its acknowledgement is lost after the rows were written), or
\* in syncedIds the ids of the rows that the upsert's select() hands back in
\* data (line 75: data may be null or hold fewer rows than were written, the
\* rows that the caller is allowed to read); never a conflict
SupabasePushReturns(t) ==
  /\ tasks[t].pc = "push"
  /\ \E written \in BOOLEAN, acknowledged \in BOOLEAN :
       /\ acknowledged => written
       /\ remote' = IF written THEN UpsertRows(remote, tasks[t].batch, 1) ELSE remote
       /\ \E data \in SUBSET DOMAIN tasks[t].batch :
            PushAnswers(t, [i \in DOMAIN tasks[t].batch |->
                              IF ~acknowledged THEN "error"
                              ELSE IF i \in data THEN "synced" ELSE "omitted"], {})
  /\ UNCHANGED <<events, isRunning, isPausedFlag, syncIntervalId, timers>>
  /\ UNCHANGED <<config, toCreate, countCap, clock, failedAt, trackerVars>>

\* ------------------------------------------------- deleting from the log
\* markAsDeleted of the rows of ids
markAsDeleted(ev, ids) == [id \in Ids |-> IF id \in ids THEN DeletedEvent ELSE ev[id]]

\* deleteEvent, lines 242-254: false when find() throws
deleteEvent(id) ==
  /\ events' = markAsDeleted(events, {id} \ Missing(events, {id}))
  /\ returned' = Return("deleteEvent", IF Exists(events, id) THEN "deleted" ELSE "notFound",
                        createEmptyResult)
  /\ UNCHANGED <<state, stats, isRunning, isPausedFlag, syncIntervalId, timers, tasks>>
  /\ UNCHANGED <<config, toCreate, countCap, remote, clock, failedAt, trackerVars>>

\* deleteEvents, lines 256-271: the ids that are not found are skipped
deleteEvents(ev, ids) == markAsDeleted(ev, ids \ Missing(ev, ids))

\* clearAllEvents, lines 273-281
clearAllEvents ==
  /\ events' = markAsDeleted(events, {id \in Ids : Exists(events, id)})
  /\ returned' = Return("clearAllEvents", "done", createEmptyResult)
  /\ UNCHANGED <<state, stats, isRunning, isPausedFlag, syncIntervalId, timers, tasks>>
  /\ UNCHANGED <<config, toCreate, countCap, remote, clock, failedAt, trackerVars>>

\* clearRetryQueue() up to its await of getFailedEvents()
clearRetryQueue(t) ==
  /\ IsFree(t)
  /\ tasks' = [tasks EXCEPT ![t] = [IdleTask EXCEPT !.pc = "getFailedAll", !.origin = "clearRetryQueue"]]
  /\ returned' = NoReturn
  /\ UNCHANGED <<events, state, stats, isRunning, isPausedFlag, syncIntervalId, timers>>
  /\ UNCHANGED <<config, toCreate, countCap, remote, clock, failedAt, trackerVars>>

\* clearRetryQueue, lines 828-830: the failed events are read
GetFailedAllReturns(t) ==
  /\ tasks[t].pc = "getFailedAll"
  /\ \E ok \in BOOLEAN :
       LET failedEvents == getFailedEvents(events, MaxEvents)
       IN IF ~ok
          THEN /\ tasks' = [tasks EXCEPT ![t] = IdleTask]
               /\ returned' = Reject(tasks[t].origin, StoreError)
          ELSE IF failedEvents = <<>>
          THEN /\ tasks' = [tasks EXCEPT ![t] = IdleTask]
               /\ returned' = Return(tasks[t].origin, "noFailed", createEmptyResult)
          ELSE /\ tasks' = [tasks EXCEPT ![t] = [@ EXCEPT !.pc = "deleteEvents", !.batch = failedEvents]]
               /\ returned' = NoReturn
  /\ UNCHANGED <<events, state, stats, isRunning, isPausedFlag, syncIntervalId, timers>>
  /\ UNCHANGED <<config, toCreate, countCap, remote, clock, failedAt, trackerVars>>

\* clearRetryQueue, line 830: deleteEvents is done
DeleteEventsReturns(t) ==
  /\ tasks[t].pc = "deleteEvents"
  /\ \E ok \in BOOLEAN :
       IF ok
       THEN /\ events' = deleteEvents(events, BatchIds(tasks[t].batch))
            /\ returned' = Return(tasks[t].origin, "done", createEmptyResult)
       ELSE /\ returned' = Reject(tasks[t].origin, StoreError)
            /\ UNCHANGED events
  /\ tasks' = [tasks EXCEPT ![t] = IdleTask]
  /\ UNCHANGED <<state, stats, isRunning, isPausedFlag, syncIntervalId, timers>>
  /\ UNCHANGED <<config, toCreate, countCap, remote, clock, failedAt, trackerVars>>

\* a markEventsSynced(ids) call of the application: with an id that find()
\* does not find the write rejects, the other updates made or not
MarkEventsSyncedCall(ids) ==
  /\ ids # {}
  /\ IF Missing(events, ids) # {}
     THEN /\ \E done \in SUBSET (ids \ Missing(events, ids)) :
               events' = markEventsSynced(events, done)
          /\ returned' = Reject("markEventsSynced", NotFoundError)
     ELSE /\ events' = markEventsSynced(events, ids)
          /\ returned' = Return("markEventsSynced", "done", createEmptyResult)
  /\ UNCHANGED <<state, stats, isRunning, isPausedFlag, syncIntervalId, timers, tasks>>
  /\ UNCHANGED <<config, toCreate, countCap, remote, clock, failedAt, trackerVars>>

\* ------------------------------------------------------- the specification
Next ==
  \/ CreateEvent
  \/ pause
  \/ stop
  \/ \E t \in Tasks :
       \/ start(t)
       \/ HealthCheckReturns(t)
       \/ StartStatsReturns(t)
       \/ SyncNow(t)
       \/ TimerTick(t)
       \/ resume(t)
       \/ GetPendingReturns(t)
       \/ PushReturns(t)
       \/ MarkSyncedReturns(t)
       \/ MarkFailedReturns(t)
       \/ UpdateStatsReturns(t)
       \/ retryFailedEvents(t)
       \/ GetFailedReturns(t)
       \/ GetEventByIdReturns(t)
       \/ ResetReturns(t)
       \/ \E eventId \in Ids : retryEvent(t, eventId)

Spec == Init /\ [][Next]_vars

\* ------------------------------------------- one invocation at a time
\* The application awaits each asynchronous call of the engine before it
\* makes the next one, so a single invocation is in flight; pause() and
\* stop() are synchronous up to their state change and still arrive between
\* the awaits of that invocation.  The log holds up to MaxEvents events and
\* the engine is constructed with any configuration within the bounds.
Caller == CHOOSE t \in Tasks : \A u \in Tasks : t <= u

Configs ==
  [batchSize : 1..MaxEvents, maxRetryAttempts : 1..MaxRetryAttempts,
   syncInterval : {0, SyncInterval}, conflictStrategy : {LAST_WRITE_WINS},
   retryDelay : {RetryDelay}, exponentialBackoff : {TRUE}]

SeqInit ==
  /\ Constructed
  /\ config \in Configs
  /\ toCreate = MaxEvents
  /\ countCap = MaxCount

SeqNext ==
  \/ CreateEvent
  \/ pause
  \/ stop
  \/ start(Caller)
  \/ HealthCheckReturns(Caller)
  \/ StartStatsReturns(Caller)
  \/ SyncNow(Caller)
  \/ TimerTick(Caller)
  \/ resume(Caller)
  \/ GetPendingReturns(Caller)
  \/ PushReturns(Caller)
  \/ MarkSyncedReturns(Caller)
  \/ MarkFailedReturns(Caller)
  \/ UpdateStatsReturns(Caller)
  \/ retryFailedEvents(Caller)
  \/ GetFailedReturns(Caller)
  \/ GetEventByIdReturns(Caller)
  \/ ResetReturns(Caller)
  \/ \E eventId \in Ids : retryEvent(Caller, eventId)

SeqSpec == SeqInit /\ [][SeqNext]_vars

\* ------------------------------------------- the log and its remote table
\* The engine as it is constructed (its remoteAPI is a SupabaseEventAPI), one
\* invocation at a time and no timer, with an application that gives its
\* events an occurrence time of its own (or none), deletes events and calls
\* markEventsSynced itself.  The counters of stats are not followed.
LogInputs == {[QuickInput EXCEPT !.timestamp = timestamp] : timestamp \in {0} \cup Timestamps}

LogConfigs ==
  [batchSize : 1..MaxEvents, maxRetryAttempts : {MaxRetryAttempts},
   syncInterval : {0}, conflictStrategy : {LAST_WRITE_WINS},
   retryDelay : {RetryDelay}, exponentialBackoff : {TRUE}]

LogInit ==
  /\ Constructed
  /\ config \in LogConfigs
  /\ toCreate = MaxEvents
  /\ countCap = Null

LogNext ==
  \/ \E input \in LogInputs : createEvent(input)
  \/ \E id \in Ids : deleteEvent(id)
  \/ clearAllEvents
  \/ \E ids \in SUBSET Ids : MarkEventsSyncedCall(ids)
  \/ clearRetryQueue(Caller)
  \/ GetFailedAllReturns(Caller)
  \/ DeleteEventsReturns(Caller)
  \/ SyncNow(Caller)
  \/ GetPendingReturns(Caller)
  \/ SupabasePushReturns(Caller)
  \/ MarkSyncedReturns(Caller)
  \/ MarkFailedReturns(Caller)
  \/ UpdateStatsReturns(Caller)
  \/ retryFailedEvents(Caller)
  \/ GetFailedReturns(Caller)
  \/ GetEventByIdReturns(Caller)
  \/ ResetReturns(Caller)
  \/ \E eventId \in Ids : retryEvent(Caller, eventId)

LogSpec == LogInit /\ [][LogNext]_vars

\* ------------------------------------- every call the application can make
\* The engine with any IRemoteEventAPI, one invocation at a time, with an
\* application that makes every call of the engine and deletes events.  The
\* counters of stats are not followed.
AppInit ==
  /\ Constructed
  /\ config = [ScaledConfig EXCEPT !.batchSize = MaxEvents]
  /\ toCreate = MaxEvents
  /\ countCap = Null

AppNext ==
  \/ SeqNext
  \/ \E id \in Ids : deleteEvent(id)
  \/ clearAllEvents
  \/ \E ids \in SUBSET Ids : MarkEventsSyncedCall(ids)
  \/ clearRetryQueue(Caller)
  \/ GetFailedAllReturns(Caller)
  \/ DeleteEventsReturns(Caller)

AppSpec == AppInit /\ [][AppNext]_vars

\* ------------------------------------------- a remote that reports conflicts
\* The engine with a remote that holds versions of its own of the events it
\* is pushed, one invocation at a time and no timer, with an application that
\* stamps its events with a device and an occurrence time, chooses the
\* conflict strategy and resolves conflicts.  The counters of stats are not
\* followed.
Resolutions == {"local", "remote", "merged"}

ConflictInputs ==
  {[QuickInput EXCEPT !.timestamp = timestamp, !.deviceId = DeviceIds[d]] :
     <<timestamp, d>> \in ({0} \cup Timestamps) \X DOMAIN DeviceIds}

ConflictInit ==
  /\ Constructed
  /\ config = ScaledConfig
  /\ toCreate = MaxEvents
  /\ countCap = Null

ConflictNext ==
  \/ \E input \in ConflictInputs : createEvent(input)
  \/ \E strategy \in ConflictStrategies : setConflictStrategy(strategy)
  \/ \E eventId \in Ids, resolution \in Resolutions : resolveConflict(eventId, resolution)
  \/ SyncNow(Caller)
  \/ GetPendingReturns(Caller)
  \/ PushReturnsVersions(Caller)
  \/ MarkSyncedReturns(Caller)
  \/ MarkFailedReturns(Caller)
  \/ UpdateStatsReturns(Caller)

ConflictSpec == ConflictInit /\ [][ConflictNext]_vars

\* ------------------------------------------------- a started engine at work
\* The engine started with a positive syncInterval and never paused or
\* stopped, pushing one event per cycle.  setInterval keeps calling its
\* callback while the timer is armed, every awaited promise settles, and
\* neither the store nor the transport fails for ever; what the remote answers
\* about each event is left open.  The counters of stats are not followed.
LiveConfigs ==
  [batchSize : {BatchSize}, maxRetryAttempts : 1..MaxRetryAttempts,
   syncInterval : {SyncInterval}, conflictStrategy : {LAST_WRITE_WINS},
   retryDelay : {RetryDelay}, exponentialBackoff : {TRUE}]

LiveInit ==
  /\ Constructed
  /\ config \in LiveConfigs
  /\ toCreate = MaxEvents
  /\ countCap = Null

LiveNext ==
  \/ CreateEvent
  \/ start(Caller)
  \/ HealthCheckReturns(Caller)
  \/ StartStatsReturns(Caller)
  \/ TimerTick(Caller)
  \/ GetPendingReturns(Caller)
  \/ PushReturns(Caller)
  \/ MarkSyncedReturns(Caller)
  \/ MarkFailedReturns(Caller)
  \/ UpdateStatsReturns(Caller)

\* the call that the step continues neither throws nor rejects
Succeeds == returned'.thrown = NoError

LiveFairness ==
  /\ WF_vars(TimerTick(Caller))
  /\ WF_vars(HealthCheckReturns(Caller))
  /\ SF_vars(StartStatsReturns(Caller) /\ Succeeds)
  /\ SF_vars(GetPendingReturns(Caller) /\ Succeeds)
  /\ SF_vars(PushReturns(Caller) /\ Succeeds)
  /\ SF_vars(MarkSyncedReturns(Caller) /\ Succeeds)
  /\ SF_vars(MarkFailedReturns(Caller) /\ Succeeds)
  /\ SF_vars(UpdateStatsReturns(Caller) /\ Succeeds)

LiveSpec == LiveInit /\ [][LiveNext]_vars /\ LiveFairness

\* ------------------------------------------------------- retries in time
\* The engine with the values of DEFAULT_CONFIG for retryDelay and
\* exponentialBackoff, one invocation at a time and no timer, with an
\* application that calls syncNow(), retryFailedEvents() and retryEvent()
\* whenever it likes while time passes.  The counters of stats are not
\* followed.
TimePasses ==
  /\ clock < MaxTicks * RetryDelay
  /\ clock' = clock + RetryDelay
  /\ returned' = NoReturn
  /\ UNCHANGED <<events, state, stats, isRunning, isPausedFlag, syncIntervalId, timers, tasks>>
  /\ UNCHANGED <<config, toCreate, countCap, remote, failedAt, trackerVars>>

BackoffInit ==
  /\ Constructed
  /\ config = ScaledConfig
  /\ toCreate = MaxEvents
  /\ countCap = Null

BackoffNext ==
  \/ CreateEvent
  \/ TimePasses
  \/ SyncNow(Caller)
  \/ GetPendingReturns(Caller)
  \/ PushReturns(Caller)
  \/ MarkSyncedReturns(Caller)
  \/ MarkFailedReturns(Caller)
  \/ UpdateStatsReturns(Caller)
  \/ retryFailedEvents(Caller)
  \/ GetFailedReturns(Caller)
  \/ GetEventByIdReturns(Caller)
  \/ ResetReturns(Caller)
  \/ \E eventId \in Ids : retryEvent(Caller, eventId)

BackoffSpec == BackoffInit /\ [][BackoffNext]_vars

\* ------------------------------------------------------ the event tracker
\* EventTrackerService (part_003): NetInfo calls handleNetworkChange with
\* each connectivity notification while the tracker is subscribed, and
\* resolves the fetch() of startTracking.  isConnected and lastNetworkState
\* are written "true", "false" and "null".  The createEvent calls of the
\* handlers go through the write queue of the database and so complete in
\* the order they were made; the rows they create are followed in recorded.
NETWORK_ONLINE == "NETWORK_ONLINE"
NETWORK_OFFLINE == "NETWORK_OFFLINE"

Connected == {"true", "false"}

\* startTracking, part_003 lines 19-39
startTracking ==
  /\ ~isTracking
  /\ isTracking' = TRUE
  /\ fetchState' = "pending"
  /\ UNCHANGED <<lastNetworkState, handlers, connectivity, recorded>>
  /\ UNCHANGED engineVars

\* stopTracking, lines 41-50: the handlers in flight go on
stopTracking ==
  /\ isTracking
  /\ isTracking' = FALSE
  /\ UNCHANGED <<lastNetworkState, handlers, fetchState, connectivity, recorded>>
  /\ UNCHANGED engineVars

\* the callback of NetInfo.fetch(), lines 36-38: the connectivity it reports
\* is the current one
FetchReturns ==
  /\ fetchState = "pending"
  /\ \E isConnected \in Connected :
       /\ connectivity # "null" => isConnected = connectivity
       /\ lastNetworkState' = isConnected
  /\ fetchState' = "done"
  /\ UNCHANGED <<isTracking, handlers, connectivity, recorded>>
  /\ UNCHANGED engineVars

\* handleNetworkChange up to its await of createEvent or its return, lines
\* 86-117, called with a notification of NetInfo
handleNetworkChange(isConnected) ==
  /\ isTracking
  /\ Len(recorded) + Len(handlers) < MaxRecorded
  /\ connectivity' = isConnected
  /\ IF lastNetworkState = "null"
     THEN /\ lastNetworkState' = isConnected
          /\ UNCHANGED handlers
     ELSE IF isConnected = lastNetworkState
     THEN UNCHANGED <<lastNetworkState, handlers>>
     ELSE /\ handlers' = Append(handlers, isConnected)
          /\ UNCHANGED lastNetworkState
  /\ UNCHANGED <<isTracking, fetchState, recorded>>
  /\ UNCHANGED engineVars

\* handleNetworkChange from the end of its createEvent, lines 102-119: the
\* event is in the log and lastNetworkState is set; if the write fails the
\* handler rejects before that
CreateEventReturns ==
  /\ handlers # <<>>
  /\ \E ok \in BOOLEAN :
       IF ok
       THEN /\ recorded' = Append(recorded, IF Head(handlers) = "true" THEN NETWORK_ONLINE
                                            ELSE NETWORK_OFFLINE)
            /\ lastNetworkState' = Head(handlers)
       ELSE UNCHANGED <<recorded, lastNetworkState>>
  /\ handlers' = Tail(handlers)
  /\ UNCHANGED <<isTracking, fetchState, connectivity>>
  /\ UNCHANGED engineVars

TrackerInit ==
  /\ Constructed
  /\ config = ScaledConfig
  /\ toCreate = MaxEvents
  /\ countCap = Null

TrackerNext ==
  \/ startTracking
  \/ stopTracking
  \/ FetchReturns
  \/ \E isConnected \in Connected : handleNetworkChange(isConnected)
  \/ CreateEventReturns

TrackerSpec == TrackerInit /\ [][TrackerNext]_vars

\* ------------------------------------------------------------- the claims
FailedIds(result) == {f.id : f \in result.failedEvents}

\* the SyncResult of invocation t after the step: the one it returned if the
\* step ended it, else the one it is building
ResultAfter(t) == IF tasks'[t].pc = "idle" THEN returned'.result ELSE tasks'[t].result

\* the step lists event id in the failedEvents of the syncEvents run of t
ListsAsFailed(t, id) ==
  /\ tasks[t].pc \in {"push", "markSynced", "markFailed"}
  /\ id \notin FailedIds(tasks[t].result)
  /\ id \in FailedIds(ResultAfter(t))

\* the step lists event id as failed and not retryable
ListsAsExhausted(t, id) ==
  /\ tasks[t].pc \in {"push", "markSynced", "markFailed"}
  /\ [id |-> id, error |-> RemoteError, retryable |-> FALSE] \notin tasks[t].result.failedEvents
  /\ [id |-> id, error |-> RemoteError, retryable |-> FALSE] \in ResultAfter(t).failedEvents

\* the syncNow() executions that have entered Syncing and have not yet
\* finished their store updates
CyclesInProgress ==
  {t \in Tasks : tasks[t].origin = "syncNow"
                 /\ tasks[t].pc \in {"getPending", "push", "markSynced", "markFailed"}}

\* C1: at any moment at most one sync cycle is in progress, for every
\* interleaving of timer ticks and start(), syncNow(), resume(), pause() and
\* stop() calls.
C1_SingleFlight == Cardinality(CyclesInProgress) <= 1

C3_SyncedOnlyByPushResponse ==
  [][\A id \in Ids :
       (events[id].status # SYNCED /\ events'[id].status = SYNCED) =>
          \E t \in Tasks :
             /\ tasks[t].pc = "markSynced"
             /\ id \in IdsWith(tasks[t].batch, tasks[t].api, "synced")
             /\ tasks'[t].pc # "markSynced"]_vars

\* an event is synced, by a push response that the engine has counted
C3_Witness ==
  /\ \E id \in Ids : events[id].status = SYNCED /\ events[id].syncedAt
  /\ stats.totalSynced > 0

\* C4: once an event is synced, no sync cycle and no retryFailedEvents() moves
\* it to pending or failed; it leaves synced only by the reset of a
\* retryEvent(id) addressed to it (resolveConflict changes no event).
C4_SyncedStaysSynced ==
  [][\A id \in Ids :
       (events[id].status = SYNCED /\ events'[id].status # SYNCED) =>
          \E t \in Tasks :
             /\ tasks[t].origin = "retryEvent"
             /\ tasks[t].pc = "reset"
             /\ BatchIds(tasks[t].batch) = {id}]_vars

\* C5: every step that lists an event in a result's failedEvents raises the
\* stored retryCount of that event by exactly 1, and no other step changes a
\* stored retryCount.
C5_RetryCountPerFailure ==
  [][\A id \in Ids :
       /\ \A t \in Tasks :
            ListsAsFailed(t, id) => events'[id].retryCount = events[id].retryCount + 1
       /\ events'[id].retryCount # events[id].retryCount =>
            \E t \in Tasks : ListsAsFailed(t, id)]_vars

\* C6: an event rejected in an attempt with retryCount + 1 >= maxRetryAttempts
\* (listed as failed and not retryable) ends that attempt with status failed
\* (and so is in no pending batch of a later cycle until it is retried).
C6_ExhaustedEndsFailed ==
  [][\A id \in Ids : \A t \in Tasks :
       ListsAsExhausted(t, id) => events'[id].status = FAILED]_vars

\* C7: from pause() on, getState() reports Paused until the next resume(),
\* start() or stop(): while the pause flag is set and the state is Paused,
\* only a stop() or a resume() moves the state out of Paused (a start() that
\* does anything clears the pause flag first).
C7_PausedUntilResumed ==
  [][(state = PAUSED /\ isPausedFlag /\ state' # PAUSED) =>
        (stop \/ \E t \in Tasks : resume(t))]_vars

\* C8 as stated: while the engine reports Paused (so after pause() and before
\* any resume()), neither a timer tick nor a syncNow() call starts a cycle.
C8_NoCycleBeforeResume ==
  [][\A t \in Tasks :
       (state = PAUSED /\ (SyncNow(t) \/ TimerTick(t))) => tasks' = tasks]_vars

\* C8 amended: while isPaused() is true (after pause() and before the next
\* resume() or start() of an engine that is not running), neither a timer tick
\* nor a syncNow() call starts a cycle: no invocation begins, nothing in the
\* log, the state or the stats changes, and syncNow() returns the empty
\* successful result.
C8_NoCycleWhilePaused ==
  [][\A t \in Tasks :
       (isPausedFlag /\ (SyncNow(t) \/ TimerTick(t))) =>
          /\ UNCHANGED <<events, state, stats, tasks>>
          /\ returned'.result = createEmptyResult
          /\ returned'.path \in {"paused", "inProgress", "suppressed"}]_vars

\* a syncNow() call has just returned by the pause guard of a paused engine
C8_Witness ==
  /\ isPausedFlag
  /\ state = PAUSED
  /\ returned.call = "syncNow"
  /\ returned.path = "paused"

\* C9: after stop() has returned (and until start() is called again), no
\* timer callback triggers a sync cycle: a tick that enters a cycle finds
\* the engine running.
C9_NoTickCycleAfterStop ==
  [][\A t \in Tasks :
       (TimerTick(t) /\ tasks'[t].pc = "getPending") => isRunning]_vars

\* C10 as stated: when a cycle that pushed a batch completes and neither
\* pause() nor stop() was called during it (the state is still the Syncing it
\* set and it is the only invocation in a cycle), the state becomes Idle if the
\* result it returns has no failed events and Error if it has some.
C10_StateAfterCycle ==
  [][\A t \in Tasks :
       (/\ tasks[t].origin = "syncNow"
        /\ tasks[t].pc = "updateStats"
        /\ tasks'[t].pc = "idle"
        /\ state = SYNCING
        /\ \A u \in Tasks \ {t} : ~InCycle(tasks[u])) =>
          state' = IF returned'.result.failedEvents = {} THEN IDLE ELSE ERROR]_vars

\* C10 amended: when a cycle that pushed a batch completes without an
\* exception (its stats refresh does not fail), it returns the result of
\* syncEvents and the state becomes Idle if that result has no failed events
\* and Error if it has some.
C10_StateAfterCycleNoException ==
  [][\A t \in Tasks :
       (/\ tasks[t].origin = "syncNow"
        /\ tasks[t].pc = "updateStats"
        /\ tasks'[t].pc = "idle"
        /\ returned'.path = "done") =>
          /\ returned'.result = tasks[t].result
          /\ state' = IF returned'.result.failedEvents = {} THEN IDLE ELSE ERROR]_vars

\* a cycle has just completed with a failed event and left the engine in Error
C10_Witness ==
  /\ returned.call = "syncNow"
  /\ returned.path = "done"
  /\ returned.result.failedEvents # {}
  /\ state = ERROR

\* the invocation t takes the step
Acts(t) == tasks'[t] # tasks[t]

\* the pushEvents call of invocation t throws in the step
PushThrows(t) == tasks[t].pc = "push" /\ Acts(t) /\ returned'.thrown = TransportError

\* C11: when the push call itself throws, syncEvents returns a result with
\* success = false that lists every event of the attempted batch as failed
\* with the message of that error and retryable = true, and no exception
\* escapes: no call rejects and the engine keeps running as before.
C11_TransportFailureResult ==
  [][\A t \in Tasks :
       PushThrows(t) =>
          /\ ~ResultAfter(t).success
          /\ ResultAfter(t).failedEvents =
                {[id |-> id, error |-> TransportError, retryable |-> TRUE] :
                   id \in BatchIds(tasks[t].batch)}
          /\ returned'.path # "rejected"
          /\ UNCHANGED <<isRunning, syncIntervalId, timers>>]_vars

\* a cycle has caught the transport failure of a push of two events
C11_Witness ==
  /\ returned.thrown = TransportError
  /\ \E t \in Tasks :
       /\ tasks[t].pc = "updateStats"
       /\ ~tasks[t].result.success
       /\ Cardinality(tasks[t].result.failedEvents) > 1

\* C12: after a whole-batch transport failure of a push, every event of the
\* attempted batch has status failed in the log.
C12_TransportFailureMarksFailed ==
  [][\A t \in Tasks :
       PushThrows(t) =>
          \A id \in BatchIds(tasks[t].batch) : events'[id].status = FAILED]_vars

\* C13: a transport failure of the push of a sync cycle is delivered to the
\* onSyncError subscribers (handleError is called with it; the catch block of
\* syncEvents keeps only its message, so no later step can deliver it).
C13_TransportFailureDelivered ==
  [][\A t \in Tasks :
       (PushThrows(t) /\ tasks[t].origin = "syncNow") =>
          returned'.handled = TransportError]_vars

\* C14: no failure of a store read or update raised in start() or in a sync
\* cycle (the timer callback's included) makes the call reject; each is passed
\* to the onSyncError subscribers instead.
C14_StoreFailuresCaptured ==
  [][\A t \in Tasks :
       (/\ tasks[t].origin \in {"start", "syncNow"}
        /\ Acts(t)
        /\ returned'.thrown = StoreError) =>
          /\ returned'.path # "rejected"
          /\ returned'.handled = StoreError]_vars

\* C15: an exception that reaches the try block of syncNow() after it entered
\* Syncing (the read of the pending batch or the stats refresh fails; what
\* syncEvents raises it catches itself) leaves the engine in state Error, is
\* passed to every onSyncError subscriber, and syncNow() resolves (with the
\* empty result) instead of rejecting.
C15_SyncNowCatches ==
  [][\A t \in Tasks :
       (/\ tasks[t].origin = "syncNow"
        /\ tasks[t].pc \in {"getPending", "updateStats"}
        /\ Acts(t)
        /\ returned'.thrown # NoError) =>
          /\ state' = ERROR
          /\ returned'.handled = returned'.thrown
          /\ returned'.call = "syncNow"
          /\ returned'.path = "error"
          /\ returned'.result = createEmptyResult
          /\ tasks'[t] = IdleTask]_vars

\* syncNow() has just resolved after a failed store read, the subscribers
\* have the error and the engine is in Error
C15_Witness ==
  /\ returned.call = "syncNow"
  /\ returned.path = "error"
  /\ returned.thrown = StoreError
  /\ returned.handled = StoreError
  /\ state = ERROR

\* start() of invocation t goes on after its stats refresh
StartContinues(t) == tasks[t].pc = "startStats" /\ Acts(t)

\* the periodic timer is armed in the step
ArmsTimer == syncIntervalId' \in timers' \ timers

\* the syncNow() call of start() in the step: a cycle begins unless the engine
\* is Syncing or paused
StartCallsSyncNow(t) ==
  IF state = SYNCING \/ isPausedFlag
  THEN /\ tasks'[t] = IdleTask
       /\ returned'.call = "start"
       /\ returned'.path \in {"inProgress", "paused"}
       /\ state' = state
  ELSE /\ tasks'[t].pc = "getPending"
       /\ returned' = Awaiting("start")
       /\ state' = SYNCING

\* C16 as stated: when the health check fails during start() on a non-running
\* engine, start() still performs its first sync cycle and, for a positive
\* syncInterval, still arms the periodic timer.
C16_UnhealthyStartSyncs ==
  [][\A t \in Tasks :
       (StartContinues(t) /\ ~tasks[t].isHealthy) =>
          /\ tasks'[t].pc = "getPending"
          /\ config.syncInterval > 0 => ArmsTimer]_vars

\* C16 amended: the health check never gates start(): whatever it answers,
\* start() goes on to its stats refresh.  After a failed check, if that
\* refresh succeeds, start() arms the periodic timer for a positive
\* syncInterval and calls syncNow(), which starts the first cycle unless the
\* engine is Syncing or paused at that moment; if the refresh fails, start()
\* rejects, arms no timer and starts no cycle.
C16_HealthCheckAdvisory ==
  [][\A t \in Tasks :
       /\ (tasks[t].pc = "healthCheck" /\ Acts(t)) =>
             /\ tasks'[t].pc = "startStats"
             /\ UNCHANGED <<state, isRunning, isPausedFlag, timers>>
       /\ (StartContinues(t) /\ ~tasks[t].isHealthy) =>
             IF returned'.thrown = NoError
             THEN /\ config.syncInterval > 0 => ArmsTimer
                  /\ StartCallsSyncNow(t)
             ELSE /\ returned'.path = "rejected"
                  /\ tasks'[t] = IdleTask
                  /\ UNCHANGED <<state, timers>>]_vars

\* a start() whose health check failed has armed the timer and is in its
\* first cycle
C16_Witness ==
  \E t \in Tasks :
    /\ tasks[t].pc = "getPending"
    /\ ~tasks[t].isHealthy
    /\ returned = Awaiting("start")
    /\ state = SYNCING
    /\ syncIntervalId \in timers

\* the store updates of a mixed response are as the batch sync algorithm says:
\* reported synced => synced with syncedAt; reported in errors with
\* retryCount + 1 < maxRetryAttempts => failed, retryCount + 1, the reported
\* error stored, and listed in the result as retryable
MixedBatchApplied(t) ==
  \A i \in DOMAIN tasks[t].batch :
    LET e == tasks[t].batch[i]
    IN /\ tasks[t].api[i] = "synced" =>
            /\ events'[e.id].status = SYNCED
            /\ events'[e.id].syncedAt
       /\ (tasks[t].api[i] = "error" /\ e.retryCount + 1 < config.maxRetryAttempts) =>
            /\ events'[e.id].status = FAILED
            /\ events'[e.id].retryCount = e.retryCount + 1
            /\ events'[e.id].error = RemoteError
            /\ [id |-> e.id, error |-> RemoteError, retryable |-> TRUE]
                  \in tasks'[t].result.failedEvents

\* the syncEvents call of the cycle of t returns in the step, after a response
\* that reported some ids as synced and others in errors
MixedBatchDone(t) ==
  /\ tasks[t].origin = "syncNow"
  /\ tasks[t].pc \in {"markSynced", "markFailed"}
  /\ tasks'[t].pc = "updateStats"
  /\ IdsWith(tasks[t].batch, tasks[t].api, "synced") # {}
  /\ IdsWith(tasks[t].batch, tasks[t].api, "error") # {}

\* the cycle of t ends in the step
CycleEnds(t) ==
  tasks[t].origin = "syncNow" /\ tasks[t].pc = "updateStats" /\ tasks'[t].pc = "idle"

AllSynced(t) ==
  /\ tasks[t].origin = "syncNow"
  /\ tasks[t].pc = "markSynced"
  /\ Acts(t)
  /\ \A i \in DOMAIN tasks[t].batch : tasks[t].api[i] = "synced"

\* the cycle of t ends after a push whose whole batch was synced
CycleEndsAllSynced(t) ==
  /\ CycleEnds(t)
  /\ tasks[t].result.success
  /\ tasks[t].result.syncedEvents = BatchIds(tasks[t].batch)

PendingIds(ev) == {id \in Ids : ev[id].status = PENDING}

Min(a, b) == IF a < b THEN a ELSE b

\* C19: resume() on a paused engine clears the pause flag, sets the state to
\* Idle and at once starts a sync cycle (so the state is Syncing when resume()
\* reaches its first await), and a cycle pushes the events pending when it
\* reads them, up to batchSize of them, and nothing if none is pending.
C19_ResumeStartsCycle ==
  [][\A t \in Tasks :
       /\ (resume(t) /\ isPausedFlag) =>
            /\ ~isPausedFlag'
            /\ state' = SYNCING
            /\ tasks'[t].pc = "getPending"
            /\ returned' = Awaiting("resume")
       /\ (tasks[t].pc = "getPending" /\ Acts(t) /\ returned'.thrown = NoError) =>
            IF PendingIds(events) = {}
            THEN tasks'[t] = IdleTask
            ELSE /\ tasks'[t].pc = "push"
                 /\ BatchIds(tasks'[t].batch) \subseteq PendingIds(events)
                 /\ Cardinality(BatchIds(tasks'[t].batch)) = Len(tasks'[t].batch)
                 /\ Len(tasks'[t].batch) = Min(config.batchSize, Cardinality(PendingIds(events)))]_vars

\* resume() has just started a cycle with more events pending than a batch holds
C19_Witness ==
  /\ returned = Awaiting("resume")
  /\ state = SYNCING
  /\ ~isPausedFlag
  /\ Cardinality(PendingIds(events)) > config.batchSize

\* a cycle begins in the step
CycleBegins == \E t \in Tasks : tasks[t].pc # "getPending" /\ tasks'[t].pc = "getPending"

\* C20 as stated: start() on a non-running engine triggers exactly one
\* immediate sync cycle and arms the periodic timer iff syncInterval > 0; with
\* syncInterval = 0 cycles are triggered by explicit calls only.
C20_StartSyncsOnce ==
  [][/\ \A t \in Tasks :
          StartContinues(t) =>
             /\ tasks'[t].pc = "getPending"
             /\ ArmsTimer <=> config.syncInterval > 0
     /\ (config.syncInterval = 0 /\ CycleBegins) =>
          returned'.call \in {"start", "syncNow", "resume"}]_vars

\* C20 amended: a start() on a non-running engine whose stats refresh succeeds
\* calls syncNow() exactly once (one cycle begins unless the engine is Syncing
\* or paused at that moment) and arms the periodic timer iff syncInterval > 0;
\* one whose stats refresh fails rejects, arms no timer and starts no cycle.
\* With syncInterval = 0 no timer is ever armed and cycles begin by start(),
\* syncNow() and resume() calls only.
C20_StartSyncsOnceIfStatsRead ==
  [][/\ \A t \in Tasks :
          StartContinues(t) =>
             IF returned'.thrown = NoError
             THEN /\ StartCallsSyncNow(t)
                  /\ ArmsTimer <=> config.syncInterval > 0
                  /\ ~ArmsTimer => timers' = timers
                  /\ \A u \in Tasks \ {t} : tasks'[u] = tasks[u]
             ELSE /\ returned' = Reject("start", StoreError)
                  /\ tasks'[t] = IdleTask
                  /\ UNCHANGED <<state, timers, syncIntervalId>>
     /\ config.syncInterval = 0 =>
          /\ timers' = {}
          /\ CycleBegins => returned'.call \in {"start", "syncNow", "resume"}]_vars

\* a start() with syncInterval = 0 is in its first cycle and no timer is armed
C20_Witness ==
  /\ returned = Awaiting("start")
  /\ config.syncInterval = 0
  /\ isRunning
  /\ state = SYNCING
  /\ timers = {}

FailedEventIds(ev) == {id \in Ids : ev[id].status = FAILED}

\* the ids of a batch are all different
NoDuplicates(batch) == Cardinality(BatchIds(batch)) = Len(batch)

C22_ManualConflictsPending ==
  [][config.conflictStrategy = MANUAL =>
       \A c \in returned'.conflicts : c.eventId \in getPendingConflicts]_vars

\* C23: under the default LastWriteWins strategy, the resolution recorded for
\* a reported conflict selects the version (local or remote) with the greater
\* timestamp, and for equal timestamps the version whose deviceId is
\* lexically lower; the same pair of inputs always yields the same resolution.
C23_LastWriteWins ==
  [][\A t \in Tasks :
       (config.conflictStrategy = LAST_WRITE_WINS /\ Acts(t)) =>
          \A c \in returned'.conflicts : \A i \in DOMAIN tasks[t].batch :
             tasks[t].batch[i].id = c.eventId =>
               LET localEvent == tasks[t].batch[i]
                   Rank(deviceId) == CHOOSE d \in DOMAIN DeviceIds : DeviceIds[d] = deviceId
                   winner == IF localEvent.timestamp > c.remoteEvent.timestamp THEN "local"
                             ELSE IF localEvent.timestamp < c.remoteEvent.timestamp THEN "remote"
                             ELSE IF Rank(localEvent.deviceId) <= Rank(c.remoteEvent.deviceId) THEN "local"
                             ELSE "remote"
               IN \E entry \in ResultAfter(t).conflicts :
                     entry.id = c.eventId /\ entry.resolution = winner]_vars

\* C24: the status updates produced by one sync cycle (the events it marks
\* synced and the events it marks failed) become visible in the log
\* atomically: while an update of the cycle is still to be made (it awaits a
\* markEventsFailed call), no reader observes an event of its batch already
\* updated.
C24_CycleUpdatesAtomic ==
  \A t \in Tasks :
    tasks[t].pc = "markFailed" =>
      \A id \in BatchIds(tasks[t].batch) : events[id].status = PENDING

\* C25: every event created while a sync cycle is running is pushed by a
\* later cycle: with the engine started, not paused and a positive
\* syncInterval, each pending event is eventually included in a push,
\* whatever other events are pending or are persistently rejected by the
\* remote.  (An event in the batch of the cycle in progress has been included
\* in a push already.)
C25_PendingEventuallyPushed ==
  \A id \in Ids :
    (/\ events[id].status = PENDING
     /\ \A t \in Tasks : id \notin BatchIds(tasks[t].batch)
     /\ isRunning /\ ~isPausedFlag /\ timers # {})
      ~> (\E t \in Tasks : tasks[t].pc = "push" /\ id \in BatchIds(tasks[t].batch))

\* C26: getPendingEvents(limit) and getFailedEvents(limit) return events in
\* ascending timestamp order (oldest first), so the batch a cycle pushes
\* consists of the oldest pending events.
C26_OldestFirst ==
  [][\A t \in Tasks :
       (/\ tasks[t].pc \in {"getPending", "getFailed"}
        /\ tasks'[t].pc \in {"push", "reset"}) =>
          LET batch == tasks'[t].batch
              status == IF tasks[t].pc = "getPending" THEN PENDING ELSE FAILED
          IN /\ \A i \in DOMAIN batch : \A j \in DOMAIN batch :
                   i < j => batch[i].timestamp <= batch[j].timestamp
             /\ \A id \in Ids :
                   (events[id].status = status /\ id \notin BatchIds(batch)) =>
                      \A i \in DOMAIN batch : batch[i].timestamp <= events[id].timestamp]_vars

\* C27: markEventsSynced(ids, syncedAt) with some ids that are not present in
\* the log still marks every present id as synced and completes without
\* error; the missing ids are ignored.  (Both for a call of the application
\* and for the call of a cycle, the store's I/O working.)
C27_MissingIdsIgnored ==
  [][/\ \A ids \in SUBSET Ids :
          MarkEventsSyncedCall(ids) =>
             /\ returned'.path = "done"
             /\ \A id \in ids : Exists(events, id) => events'[id].status = SYNCED
     /\ \A t \in Tasks :
          (tasks[t].pc = "markSynced" /\ Acts(t) /\ returned'.thrown # StoreError) =>
             /\ returned'.thrown = NoError
             /\ \A id \in IdsWith(tasks[t].batch, tasks[t].api, "synced") :
                   Exists(events, id) => events'[id].status = SYNCED]_vars

\* C28: no operation of the engine or of the store's status-update operations
\* (markEventsSynced, markEventsFailed, updateEventStatus,
\* updateEventStatusBatch) changes an existing event's id, type, payload,
\* timestamp or createdAt: the row of an id that is in the log before and
\* after a step keeps these columns.
C28_ContentImmutable ==
  [][\A id \in Ids :
       (Exists(events, id) /\ Exists(events', id)) =>
          /\ events'[id].type = events[id].type
          /\ events'[id].payload = events[id].payload
          /\ events'[id].timestamp = events[id].timestamp
          /\ events'[id].createdAt = events[id].createdAt]_vars

\* an event that was marked failed, reset to pending by a retry and marked
\* synced holds the content it was created with
C28_Witness ==
  \E id \in Ids :
    /\ events[id].status = SYNCED
    /\ events[id].retryCount > 0
    /\ events[id].type = QuickInput.type
    /\ events[id].payload = QuickInput.payload
    /\ events[id].timestamp = events[id].createdAt

\* C29: no sync activity (start, syncNow, syncEvents, resume, pause, stop,
\* retryFailedEvents, retryEvent) removes an event from the log; the set of
\* event ids in the log shrinks only through an explicit delete or purge call
\* (deleteEvent, deleteEvents, clearAllEvents, clearRetryQueue).
C29_OnlyDeletesRemove ==
  [][(\E id \in Ids : Exists(events, id) /\ ~Exists(events', id)) =>
        \/ \E id \in Ids : deleteEvent(id)
        \/ clearAllEvents
        \/ \E t \in Tasks : DeleteEventsReturns(t)]_vars

\* the log has lost an event to a delete while it holds one that a cycle has
\* synced and one invocation is at work
C29_Witness ==
  /\ \E id \in Ids : events[id].status = "deleted"
  /\ \E id \in Ids : events[id].status = SYNCED
  /\ \E t \in Tasks : InCycle(tasks[t])

\* C30: pushing the same event id to the remote two or more times (for
\* instance after a retry, or from two overlapping cycles) leaves exactly one
\* remote record for that id, with the same immutable content (type, payload,
\* timestamp, createdAt) as after the first push: each upsert is one
\* statement of the remote table, so every push is a step of its own.
C30_OneRemoteRecord ==
  [][\A i \in DOMAIN remote' :
       /\ \A j \in DOMAIN remote' : remote'[j].id = remote'[i].id => j = i
       /\ \A k \in DOMAIN remote :
            remote[k].id = remote'[i].id =>
               /\ remote'[i].type = remote[k].type
               /\ remote'[i].payload = remote[k].payload
               /\ remote'[i].timestamp = remote[k].timestamp
               /\ remote'[i].created_at = remote[k].created_at]_vars

\* the push of a retry is acknowledged for an event that an earlier push had
\* failed for, and the remote table holds one record of it
C30_Witness ==
  \E t \in Tasks :
    /\ tasks[t].pc = "markSynced"
    /\ \E i \in DOMAIN tasks[t].batch :
          /\ tasks[t].batch[i].retryCount > 0
          /\ Cardinality({k \in DOMAIN remote : remote[k].id = tasks[t].batch[i].id}) = 1

\* C31: with exponentialBackoff enabled, a failed event with retry count r is
\* not pushed again before retryDelay * 2^(r - 1) ms have elapsed since its
\* last failed attempt (a delay that strictly grows with r): when a retry
\* goes on to its push, that time has passed for every failed event of its
\* batch.
C31_BackoffBeforeRetry ==
  [][\A t \in Tasks :
       (tasks[t].pc = "reset" /\ tasks'[t].pc = "push") =>
          \A id \in BatchIds(tasks'[t].batch) :
             (config.exponentialBackoff /\ events[id].status = FAILED) =>
                clock >= failedAt[id] + config.retryDelay * 2^(events[id].retryCount - 1)]_vars

\* C32: every push issued by a syncNow() cycle or by retryFailedEvents()
\* contains at most batchSize events, whatever the number of pending or
\* failed events in the log.
C32_PushWithinBatchSize ==
  \A t \in Tasks :
    (tasks[t].pc = "push" /\ tasks[t].origin \in {"syncNow", "retryFailedEvents"}) =>
       Len(tasks[t].batch) <= config.batchSize

\* a cycle awaits the push of a full batch while the log holds more pending
\* events than batchSize
C32_Witness ==
  \E t \in Tasks :
    /\ tasks[t].pc = "push"
    /\ tasks[t].origin = "syncNow"
    /\ Len(tasks[t].batch) = config.batchSize
    /\ Cardinality(PendingIds(events)) > config.batchSize

\* C33: syncNow() on an engine that is neither Syncing nor paused, with no
\* pending events in the log, issues no push, returns success = true with
\* empty syncedEvents, failedEvents and conflicts, and leaves the engine in
\* state Idle whatever the state was before the call (Idle or Error): the
\* call goes to its read of the pending events, and when that read (the store
\* answering it) finds none, the call ends there.
C33_SyncNowNothingPending ==
  [][\A t \in Tasks :
       /\ (SyncNow(t) /\ state # SYNCING /\ ~isPausedFlag) =>
             /\ tasks'[t].pc = "getPending"
             /\ tasks'[t].batch = <<>>
       /\ (/\ tasks[t].pc = "getPending"
           /\ Acts(t)
           /\ returned'.thrown = NoError
           /\ PendingIds(events) = {}) =>
             /\ tasks'[t].pc = "idle"
             /\ returned'.call = "syncNow"
             /\ returned'.result.success = TRUE
             /\ returned'.result.syncedEvents = {}
             /\ returned'.result.failedEvents = {}
             /\ returned'.result.conflicts = {}
             /\ state' = IDLE
             /\ events' = events]_vars

\* syncNow() has returned for want of pending events and left the engine
\* Idle, the log holding an event whose failure had put the engine in Error
C33_Witness ==
  /\ returned = Return("syncNow", "noPending", createEmptyResult)
  /\ state = IDLE
  /\ \E id \in Ids : events[id].status = FAILED

\* C34: every event of a pushed batch is accounted for by the cycle: after
\* syncEvents returns, each event of the batch appears in the result's
\* syncedEvents, failedEvents or conflicts, so a result with success = true
\* implies that no event of the batch is left pending without being reported.
C34_BatchAccounted ==
  [][\A t \in Tasks :
       (/\ tasks[t].pc \in {"push", "markSynced", "markFailed"}
        /\ tasks'[t].pc \notin {"push", "markSynced", "markFailed"}) =>
          \A id \in BatchIds(tasks[t].batch) :
             \/ id \in ResultAfter(t).syncedEvents
             \/ id \in FailedIds(ResultAfter(t))
             \/ \E c \in ResultAfter(t).conflicts : c.id = id]_vars

\* C35: at most one periodic timer is armed per engine instance at any time,
\* for every sequence and interleaving of start() and stop() calls (including
\* start(), stop(), start() issued while the first start() is still awaiting
\* the health check).
C35_OneTimer == Cardinality(timers) <= 1

\* C36: while isPaused() is true no push to the remote is started by any
\* engine operation, retryFailedEvents() and retryEvent() included.
C36_NoPushWhilePaused ==
  [][\A t \in Tasks :
       (tasks[t].pc # "push" /\ tasks'[t].pc = "push") => ~isPausedFlag]_vars

\* C37: no event id is contained in two pushes that are outstanding at the
\* same time: retryFailedEvents() or retryEvent() running concurrently with a
\* syncNow() cycle (timer or manual) never leads to the same event being
\* pushed by both before either push has completed.
C37_NoDoublePush ==
  \A t \in Tasks : \A u \in Tasks :
    (/\ t # u
     /\ tasks[t].pc = "push"
     /\ tasks[u].pc = "push"
     /\ tasks[t].origin \in {"retryFailedEvents", "retryEvent"}
     /\ tasks[u].origin = "syncNow") =>
       BatchIds(tasks[t].batch) \cap BatchIds(tasks[u].batch) = {}

\* C38: the network events recorded by the event tracker alternate: between
\* two recorded NETWORK_OFFLINE events there is always a recorded
\* NETWORK_ONLINE event and vice versa, for every sequence of connectivity
\* notifications, including notifications that arrive while the handler of an
\* earlier notification is still awaiting its local write.
C38_NetworkEventsAlternate ==
  \A i \in DOMAIN recorded :
    i > 1 => recorded[i] # recorded[i - 1]

\* C39: once all notification handlers have completed, the tracker's
\* remembered network state equals the connectivity reported by the most
\* recent notification, for every arrival order of notifications relative to
\* the handlers' awaited writes and to the initial NetInfo.fetch() result.
C39_RemembersLastNotification ==
  (handlers = <<>> /\ fetchState # "pending" /\ connectivity # "null") =>
     lastNetworkState = connectivity

====
